---- MODULE Spec2Model ----
(***************************************************************************)
(* Model of compress.py: the RODNet compression script.  One run of main   *)
(* is a sequence of steps (pc), each a call of the script's own functions  *)
(* or of an external routine, and every external call may raise.           *)
(***************************************************************************)
EXTENDS Integers, Sequences, FiniteSets, TLC

\* ------------------------------------------------------------------ bounds

\* Parameter tensors per sub-module (encoder, decoder) of a checkpoint.
MaxTensors == 2

\* Simultaneous invocations of print_size_of_model in one working directory.
NumInvocations == 2

\* ------------------------------------------------------------- basic values

\* Python's None (an argument that was not given on the command line).
None == "<None>"

\* str(v) as an f-string formats it.
Str(v) == IF v = None THEN "None" ELSE v

\* s.lower() on the strings the command line can carry.
Lower(s) ==
    CASE s = "Global" -> "global"
      [] s = "Static" -> "static"
      [] OTHER -> s

\* The one file the size reporter writes, reads and removes.
TempFile == "temp.p"

\* The checkpoint file that exists in the working directory.
CheckpointFile == "checkpoints/rodnet.pkl"

\* Values --checkpoint can take: not given, an existing file, a missing one.
CheckpointArgs == {None, CheckpointFile, "checkpoints/missing.pkl"}

\* Values --pruning_type can take on the command line (None: not given).
PruningArgs == {None, "global", "local", "Global", "structured"}

\* Values --quantization_type can take on the command line (None: not given).
QuantizationArgs == {None, "static", "dynamic", "Static", "int4"}

\* choices=["global", "local"] of --pruning_type.
PruningChoices == {"global", "local"}

\* choices=["static", "dynamic"] of --quantization_type.
QuantizationChoices == {"static", "dynamic"}

\* argparse's test of a given value against an argument's choices.
InChoicesAny(value, choices) == TRUE
InChoices(value, choices) == value = None \/ value \in choices

\* ----------------------------------------------------------------- tensors

EncoderNames ==
    <<"cdc.encoder.0.weight", "cdc.encoder.1.weight",
      "cdc.encoder.2.weight", "cdc.encoder.3.weight">>
DecoderNames ==
    <<"cdc.decoder.0.weight", "cdc.decoder.1.weight",
      "cdc.decoder.2.weight", "cdc.decoder.3.weight">>

Range(s) == {s[i] : i \in DOMAIN s}

\* Shape of the i-th encoder / decoder tensor of a fixture checkpoint.
EncoderShape(i) == IF i = 1 THEN <<10, 10>> ELSE <<i, 3>>
DecoderShape(i) == IF i = 1 THEN <<50>> ELSE <<2, i, 2>>

\* A state dict: parameter name -> tensor shape, k encoder and m decoder tensors.
StateDict(k, m) ==
    [n \in {EncoderNames[i] : i \in 1..k} \cup {DecoderNames[i] : i \in 1..m} |->
        IF \E i \in 1..k : EncoderNames[i] = n
        THEN EncoderShape(CHOOSE i \in 1..k : EncoderNames[i] = n)
        ELSE DecoderShape(CHOOSE i \in 1..m : DecoderNames[i] = n)]

\* The same with one tensor outside the encoder and the decoder.
OtherName == "mnet.conv.weight"
WithOther(sd) == [n \in DOMAIN sd \cup {OtherName} |->
                    IF n = OtherName THEN <<4, 2>> ELSE sd[n]]

StateDicts ==
    {StateDict(k, m) : k \in 0..MaxTensors, m \in 0..MaxTensors} \cup
    {WithOther(StateDict(k, m)) : k \in 0..MaxTensors, m \in 0..MaxTensors}

EmptyDict == [n \in {} |-> <<>>]

\* p.numel(): the product of the dimensions of a tensor.
RECURSIVE numel(_)
numelFirstDim(shape) == IF shape = <<>> THEN 1 ELSE Head(shape)
numel(shape) == IF shape = <<>> THEN 1 ELSE Head(shape) * numel(Tail(shape))

\* sum(p.numel() for p in module.parameters()) over the parameters named in names.
RECURSIVE SumNumel(_, _)
SumNumel(params, names) ==
    IF names = {} THEN 0
    ELSE LET n == CHOOSE x \in names : TRUE
         IN  numel(params[n]) + SumNumel(params, names \ {n})

\* Bytes of one element of a tensor of the given dtype.
ItemSize(dtype) ==
    CASE dtype = "float32" -> 4
      [] dtype = "float16" -> 2
      [] dtype = "qint8" -> 1


\* torch.save(state_dict, f): bytes of the file a complete write produces.
SerializedBytes(m) ==
    SumNumel(m.params, DOMAIN m.params) * ItemSize(m.dtype)
        + 64 * Cardinality(DOMAIN m.params) + 512

\* bytes/1e3 as print shows it: the whole kilobytes and the remaining thousandths.
KiloBytesBinary(bytes) == [whole |-> bytes \div 1024, frac |-> bytes % 1024]
KiloBytes(bytes) == [whole |-> bytes \div 1000, frac |-> bytes % 1000]

\* ------------------------------------------------------------ configuration

\* The six architectures build_model knows, and two tags it does not.
SupportedTypes == {"CDC", "HG", "HGwI", "CDCv2", "HGv2", "HGwIv2"}
ModelTypes == SupportedTypes \cup {"cdc", "Transformer"}

\* model_cfg of a configuration file: with or without the optional keys.
ModelCfgs ==
    {[type |-> t] : t \in ModelTypes} \cup
    {[type |-> t, stacked_num |-> 2, mnet_cfg |-> <<4, 32>>, dcn |-> TRUE] :
        t \in ModelTypes}

NoConfig == [model_cfg |-> [type |-> ""]]

\* What CRUW(...) exposes to build_model.
Dataset == [n_class |-> 3, chirp_ids |-> <<0, 64, 128, 192>>]

\* The tags whose constructor reads mnet_cfg, dcn and the chirp ids.
DeformableTypes == {"CDCv2", "HGv2", "HGwIv2"}

\* The if/elif chain of build_model: type tag -> architecture ("" : none).
ArchitectureForSwapped(type) ==
    CASE type = "CDC" -> "RODNetCDC"
      [] type = "HG" -> "RODNetHGwI"
      [] type = "HGwI" -> "RODNetHG"
      [] type = "CDCv2" -> "RODNetCDCDCN"
      [] type = "HGv2" -> "RODNetHGDCN"
      [] type = "HGwIv2" -> "RODNetHGwIDCN"
      [] OTHER -> "RODNetCDC"
ArchitectureFor(type) ==
    CASE type = "CDC" -> "RODNetCDC"
      [] type = "HG" -> "RODNetHG"
      [] type = "HGwI" -> "RODNetHGwI"
      [] type = "CDCv2" -> "RODNetCDCDCN"
      [] type = "HGv2" -> "RODNetHGDCN"
      [] type = "HGwIv2" -> "RODNetHGwIDCN"
      [] OTHER -> ""

\* n_class_test of build_model.
NClassTest(use_noise_channel) ==
    IF use_noise_channel THEN Dataset.n_class + 1 ELSE Dataset.n_class

\* stacked_num of build_model: <<>> stands for None.
StackedNum(model_cfg) ==
    IF "stacked_num" \in DOMAIN model_cfg THEN <<model_cfg.stacked_num>> ELSE <<>>

\* in_channels each branch passes to its constructor.
InChannels(type) ==
    IF type \in DeformableTypes THEN Len(Dataset.chirp_ids) ELSE 2

\* ------------------------------------------------------------- checkpoints

\* Both shapes of a checkpoint file, and a wrapper that lacks the weights.
WrapperOf(sd) == [optimizer_state_dict |-> [lr |-> 1], model_state_dict |-> sd]
Checkpoints ==
    StateDicts \cup {WrapperOf(sd) : sd \in StateDicts}
        \cup {[optimizer_state_dict |-> [lr |-> 1]]}

\* The test of line 233.
IsWrapper(checkpoint) == "optimizer_state_dict" \in DOMAIN checkpoint

\* The mapping build_model hands to load_state_dict.
WeightsOfWhole(checkpoint) == checkpoint
WeightsOf(checkpoint) ==
    IF IsWrapper(checkpoint) THEN checkpoint.model_state_dict ELSE checkpoint

\* ------------------------------------------------------------------ models

NoModel ==
    [arch |-> "", in_channels |-> 0, n_class |-> 0, stacked_num |-> <<>>,
     training |-> FALSE, dtype |-> "", params |-> EmptyDict,
     has_cdc |-> FALSE, pruned |-> "", quantized |-> ""]

\* A freshly constructed nn.Module: training mode, float32, own random weights.
NewModel(arch, in_channels, n_class, stacked_num, has_cdc) ==
    [arch |-> arch, in_channels |-> in_channels, n_class |-> n_class,
     stacked_num |-> stacked_num, training |-> TRUE, dtype |-> "float32",
     params |-> EmptyDict, has_cdc |-> has_cdc, pruned |-> "", quantized |-> ""]

\* rodnet.eval()
evalSkipped(m) == m
eval(m) == [m EXCEPT !.training = FALSE]

\* check_path: the path when it exists, else the ValueError it raises.
check_pathGiven(file_path, files) ==
    IF file_path # None
    THEN [raised |-> FALSE, value |-> file_path, msg |-> <<>>]
    ELSE [raised |-> TRUE, value |-> None,
          msg |-> <<"The following path does not exist: ", Str(file_path)>>]
check_path(file_path, files) ==
    IF file_path # None /\ file_path \in files
    THEN [raised |-> FALSE, value |-> file_path, msg |-> <<>>]
    ELSE [raised |-> TRUE, value |-> None,
          msg |-> <<"The following path does not exist: ", Str(file_path)>>]

\* print_parameters: the pair it returns.
print_parametersEncoderTwice(m) ==
    [encoder_parameters |-> SumNumel(m.params, DOMAIN m.params \cap Range(EncoderNames)),
     decoder_parameters |-> SumNumel(m.params, DOMAIN m.params \cap Range(EncoderNames))]
print_parameters(m) ==
    [encoder_parameters |-> SumNumel(m.params, DOMAIN m.params \cap Range(EncoderNames)),
     decoder_parameters |-> SumNumel(m.params, DOMAIN m.params \cap Range(DecoderNames))]

\* ------------------------------------------------------------------- state

VARIABLES
    pc,               \* position of the run of main
    stage,            \* the section of main the shared reporters are called from
    args,             \* the parsed command line
    config_dict,      \* the loaded configuration
    fs,               \* the paths present on disk
    temp_bytes,       \* size of temp.p while it is present
    checkpoint_path,  \* what check_path returned
    checkpoint,       \* what load_model returned
    rodnet,           \* the model under transformation
    quantized_model,  \* the result of the quantization routine
    counted,          \* the pair print_parameters returned last
    out,              \* standard output, one record per print
    err,              \* the error that ended the run
    calls,            \* the external routines invoked, in order
    inv_pc,           \* concurrent size reporters: position of each invocation
    inv_model,        \* concurrent size reporters: the model each one measures
    inv_result,       \* concurrent size reporters: outcome of each invocation
    inv_alone         \* concurrent size reporters: no other invocation overlapped

main_vars ==
    <<pc, stage, args, config_dict, checkpoint_path, checkpoint, rodnet,
      quantized_model, counted, out, err, calls>>
inv_vars == <<inv_pc, inv_model, inv_result, inv_alone>>
vars == <<main_vars, fs, temp_bytes, inv_vars>>

Invocations == 1..NumInvocations

NoArgs ==
    [checkpoint |-> None, pruning_type |-> None, quantization_type |-> None,
     half |-> FALSE, use_noise_channel |-> FALSE]
NoError == [type |-> "", msg |-> <<>>]
NoCount == [encoder_parameters |-> 0, decoder_parameters |-> 0]
NoResult == [status |-> "", whole |-> 0, frac |-> 0]

\* One print: the section it belongs to, what it shows, its text and numbers.
Line(st, kind, text, a, b) ==
    [stage |-> st, kind |-> kind, text |-> text, a |-> a, b |-> b]

MainIdle ==
    /\ pc = "parse_args"
    /\ stage = "base"
    /\ args = NoArgs
    /\ config_dict = NoConfig
    /\ checkpoint_path = None
    /\ checkpoint = EmptyDict
    /\ rodnet = NoModel
    /\ quantized_model = NoModel
    /\ counted = NoCount
    /\ out = <<>>
    /\ err = NoError
    /\ calls = <<>>

InvocationsIdle ==
    /\ inv_pc = [i \in Invocations |-> "idle"]
    /\ inv_model = [i \in Invocations |-> NoModel]
    /\ inv_result = [i \in Invocations |-> NoResult]
    /\ inv_alone = [i \in Invocations |-> TRUE]

\* A run of main about to start, in a directory that holds the checkpoint file.
Init ==
    /\ MainIdle
    /\ InvocationsIdle
    /\ fs = {CheckpointFile}
    /\ temp_bytes = 0

\* An uncaught exception: the run ends where it was raised.
Raise(type, msg) ==
    /\ pc' = "aborted"
    /\ err' = [type |-> type, msg |-> msg]

\* ---------------------------------------------------------- main: the set-up

\* parser.parse_args(): an argument outside its choices ends the run here.
ParseArgs ==
    /\ pc = "parse_args"
    /\ \E c \in CheckpointArgs, p \in PruningArgs, q \in QuantizationArgs,
          h \in BOOLEAN, n \in BOOLEAN :
          IF ~InChoices(p, PruningChoices)
          THEN /\ Raise("SystemExit", <<"argument --pruning_type: invalid choice: ", p>>)
               /\ UNCHANGED args
          ELSE IF ~InChoices(q, QuantizationChoices)
          THEN /\ Raise("SystemExit",
                        <<"argument --quantization_type: invalid choice: ", q>>)
               /\ UNCHANGED args
          ELSE /\ args' = [checkpoint |-> c, pruning_type |-> p,
                           quantization_type |-> q, half |-> h,
                           use_noise_channel |-> n]
               /\ pc' = "load_configs"
               /\ UNCHANGED err
    /\ UNCHANGED <<stage, config_dict, fs, temp_bytes, checkpoint_path, checkpoint,
                   rodnet, quantized_model, counted, out, calls, inv_vars>>

\* load_configs_from_file and update_config_dict.
LoadConfigs ==
    /\ pc = "load_configs"
    /\ \/ /\ \E m \in ModelCfgs : config_dict' = [model_cfg |-> m]
          /\ pc' = "dataset"
          /\ UNCHANGED err
       \/ /\ Raise("FileNotFoundError", <<"config">>)
          /\ UNCHANGED config_dict
    /\ UNCHANGED <<stage, args, fs, temp_bytes, checkpoint_path, checkpoint, rodnet,
                   quantized_model, counted, out, calls, inv_vars>>

\* dataset = CRUW(...)
LoadDataset ==
    /\ pc = "dataset"
    /\ \/ /\ pc' = "check_path"
          /\ UNCHANGED err
       \/ Raise("FileNotFoundError", <<"sensor_config">>)
    /\ UNCHANGED <<stage, args, config_dict, fs, temp_bytes, checkpoint_path,
                   checkpoint, rodnet, quantized_model, counted, out, calls, inv_vars>>

\* checkpoint_path = check_path(args.checkpoint)
CheckPath ==
    /\ pc = "check_path"
    /\ LET r == check_path(args.checkpoint, fs)
       IN  IF r.raised
           THEN /\ Raise("ValueError", r.msg)
                /\ UNCHANGED checkpoint_path
           ELSE /\ checkpoint_path' = r.value
                /\ pc' = "load_model"
                /\ UNCHANGED err
    /\ UNCHANGED <<stage, args, config_dict, fs, temp_bytes, checkpoint, rodnet,
                   quantized_model, counted, out, calls, inv_vars>>

\* checkpoint = load_model(checkpoint_path): torch.load of a file that must exist.
LoadModel ==
    /\ pc = "load_model"
    /\ calls' = Append(calls, "torch.load")
    /\ IF checkpoint_path \notin fs
       THEN /\ Raise("FileNotFoundError", <<Str(checkpoint_path)>>)
            /\ UNCHANGED checkpoint
       ELSE \/ /\ \E c \in Checkpoints : checkpoint' = c
               /\ pc' = "build_model"
               /\ UNCHANGED err
            \/ /\ Raise("UnpicklingError", <<Str(checkpoint_path)>>)
               /\ UNCHANGED checkpoint
    /\ UNCHANGED <<stage, args, config_dict, fs, temp_bytes, checkpoint_path, rodnet,
                   quantized_model, counted, out, inv_vars>>

\* build_model, lines 174-231: select and construct the architecture.
BuildModel ==
    /\ pc = "build_model"
    /\ LET model_cfg == config_dict.model_cfg
           arch == ArchitectureFor(model_cfg.type)
       IN  IF arch = ""
           THEN /\ Raise("NotImplementedError",
                         <<"The following model type is not supported: ",
                           model_cfg.type>>)
                /\ UNCHANGED <<rodnet, calls>>
           ELSE IF /\ model_cfg.type \in DeformableTypes
                   /\ ~({"mnet_cfg", "dcn"} \subseteq DOMAIN model_cfg)
           THEN /\ Raise("KeyError", <<"mnet_cfg">>)
                /\ UNCHANGED <<rodnet, calls>>
           ELSE /\ calls' = Append(calls, arch)
                /\ \/ /\ \E has_cdc \in BOOLEAN :
                            rodnet' = NewModel(arch, InChannels(model_cfg.type),
                                               NClassTest(args.use_noise_channel),
                                               StackedNum(model_cfg), has_cdc)
                      /\ pc' = "load_state_dict"
                      /\ UNCHANGED err
                   \/ /\ Raise("RuntimeError", <<"cuda">>)
                      /\ UNCHANGED rodnet
    /\ UNCHANGED <<stage, args, config_dict, fs, temp_bytes, checkpoint_path,
                   checkpoint, quantized_model, counted, out, inv_vars>>

\* build_model, lines 233-236: load the weights of either checkpoint shape.
LoadStateDict ==
    /\ pc = "load_state_dict"
    /\ IF IsWrapper(checkpoint) /\ "model_state_dict" \notin DOMAIN checkpoint
       THEN /\ Raise("KeyError", <<"model_state_dict">>)
            /\ UNCHANGED <<rodnet, calls>>
       ELSE /\ calls' = Append(calls, "load_state_dict")
            /\ \/ /\ rodnet' = [rodnet EXCEPT !.params = WeightsOf(checkpoint)]
                  /\ pc' = "eval"
                  /\ UNCHANGED err
               \/ /\ Raise("RuntimeError", <<"Error(s) in loading state_dict">>)
                  /\ UNCHANGED rodnet
    /\ UNCHANGED <<stage, args, config_dict, fs, temp_bytes, checkpoint_path,
                   checkpoint, quantized_model, counted, out, inv_vars>>

\* build_model, lines 238-239: rodnet.eval() and the return to main.
EvalAndReturn ==
    /\ pc = "eval"
    /\ calls' = Append(calls, "eval")
    /\ rodnet' = eval(rodnet)
    /\ pc' = "print_parameters"
    /\ UNCHANGED <<stage, args, config_dict, fs, temp_bytes, checkpoint_path,
                   checkpoint, quantized_model, counted, out, err, inv_vars>>

\* ------------------------------------------------------- the shared reporters

\* The model a section of main hands to the reporters.
Measured == IF stage = "quantization" THEN quantized_model ELSE rodnet

\* print_parameters(rodnet), lines 84-87, called at lines 323 and 340.
PrintParameters ==
    /\ pc = "print_parameters"
    /\ IF ~rodnet.has_cdc
       THEN /\ Raise("AttributeError", <<"cdc">>)
            /\ UNCHANGED <<counted, out>>
       ELSE /\ counted' = print_parameters(rodnet)
            /\ out' = Append(out, Line(stage, "parameters", "",
                                       counted'.encoder_parameters,
                                       counted'.decoder_parameters))
            /\ pc' = "print_total"
            /\ UNCHANGED err
    /\ UNCHANGED <<stage, args, config_dict, fs, temp_bytes, checkpoint_path,
                   checkpoint, rodnet, quantized_model, calls, inv_vars>>

\* print(f"Total ... parameters = {encoder_parameters + decoder_parameters}")
PrintTotal ==
    /\ pc = "print_total"
    /\ out' = Append(out, Line(stage, "total", "",
                               counted.encoder_parameters + counted.decoder_parameters,
                               0))
    /\ pc' = "size_save"
    /\ UNCHANGED <<stage, args, config_dict, fs, temp_bytes, checkpoint_path,
                   checkpoint, rodnet, quantized_model, counted, err, calls, inv_vars>>

\* Where main goes on after print_size_of_model returned.
AfterSize ==
    CASE stage = "base" -> "print_parameter_type"
      [] stage = "pruning" -> "half"
      [] stage = "half" -> "quantization"
      [] stage = "quantization" -> "print_model"

\* print_size_of_model, line 55: torch.save(rodnet.state_dict(), "temp.p").
\* A failed write raises before or after it created the file.
SizeSave ==
    /\ pc = "size_save"
    /\ \/ /\ fs' = fs \cup {TempFile}
          /\ temp_bytes' = SerializedBytes(Measured)
          /\ pc' = "size_getsize"
          /\ UNCHANGED err
       \/ /\ Raise("OSError", <<TempFile>>)
          /\ \/ UNCHANGED <<fs, temp_bytes>>
             \/ /\ fs' = fs \cup {TempFile}
                /\ temp_bytes' = 0
    /\ UNCHANGED <<stage, args, config_dict, checkpoint_path, checkpoint, rodnet,
                   quantized_model, counted, out, calls, inv_vars>>

\* print_size_of_model, line 56: print('Size (KB):', os.path.getsize("temp.p")/1e3).
SizeGetsize ==
    /\ pc = "size_getsize"
    /\ IF TempFile \notin fs
       THEN /\ Raise("FileNotFoundError", <<TempFile>>)
            /\ UNCHANGED out
       ELSE \/ /\ out' = Append(out, Line(stage, "size", "Size (KB):",
                                          KiloBytes(temp_bytes).whole,
                                          KiloBytes(temp_bytes).frac))
               /\ pc' = "size_remove"
               /\ UNCHANGED err
            \/ /\ Raise("OSError", <<TempFile>>)
               /\ UNCHANGED out
    /\ UNCHANGED <<stage, args, config_dict, fs, temp_bytes, checkpoint_path,
                   checkpoint, rodnet, quantized_model, counted, calls, inv_vars>>

\* print_size_of_model, line 57: os.remove('temp.p'), and the return to main.
SizeRemove ==
    /\ pc = "size_remove"
    /\ IF TempFile \notin fs
       THEN /\ Raise("FileNotFoundError", <<TempFile>>)
            /\ UNCHANGED <<fs, temp_bytes>>
       ELSE /\ fs' = fs \ {TempFile}
            /\ temp_bytes' = 0
            /\ pc' = AfterSize
            /\ UNCHANGED err
    /\ UNCHANGED <<stage, args, config_dict, checkpoint_path, checkpoint, rodnet,
                   quantized_model, counted, out, calls, inv_vars>>

\* print_parameter_type, lines 107-108, called at lines 326 and 360.
PrintParameterType ==
    /\ pc = "print_parameter_type"
    /\ out' = Append(out, Line(stage, "parameter_type", Measured.dtype,
                               Cardinality(DOMAIN Measured.params), 0))
    /\ pc' = IF stage = "base" THEN "pruning_banner" ELSE "size_save"
    /\ UNCHANGED <<stage, args, config_dict, fs, temp_bytes, checkpoint_path,
                   checkpoint, rodnet, quantized_model, counted, err, calls, inv_vars>>

\* ------------------------------------------------- main: the transformations

\* isinstance(args.pruning_type, str), line 330.
PruningRequested(a) == a.pruning_type # None

\* args.half, line 345.
HalfRequestedAlways(a) == TRUE
HalfRequested(a) == a.half

\* isinstance(args.quantization_type, str), line 351.
QuantizationRequested(a) == a.quantization_type # None

\* print("\n...Performing Pruning..."), line 329.
PruningBanner ==
    /\ pc = "pruning_banner"
    /\ out' = Append(out, Line("pruning", "banner", "...Performing Pruning...", 0, 0))
    /\ pc' = "pruning"
    /\ UNCHANGED <<stage, args, config_dict, fs, temp_bytes, checkpoint_path,
                   checkpoint, rodnet, quantized_model, counted, err, calls, inv_vars>>

\* Lines 330-338: the pruning routine the flag selects.  prune_sparsity is
\* handed to the routine and decides no branch of the script.
Pruning ==
    /\ pc = "pruning"
    /\ IF ~PruningRequested(args)
       THEN /\ pc' = "half"
            /\ UNCHANGED <<stage, rodnet, err, calls>>
       ELSE LET kind == Lower(args.pruning_type)
                routine == IF kind = "global" THEN "global_unstructured_pruning"
                           ELSE "multi_parameter_unstructured_pruning"
            IN  IF kind \notin {"global", "local"}
                THEN /\ Raise("ValueError",
                              <<"Unrecognized pruning type: ", Str(args.pruning_type)>>)
                     /\ UNCHANGED <<stage, rodnet, calls>>
                ELSE /\ calls' = Append(calls, routine)
                     /\ \/ /\ rodnet' = [rodnet EXCEPT !.pruned = kind]
                           /\ stage' = "pruning"
                           /\ pc' = "print_sparsity"
                           /\ UNCHANGED err
                        \/ /\ Raise("RuntimeError", <<routine>>)
                           /\ UNCHANGED <<stage, rodnet>>
    /\ UNCHANGED <<args, config_dict, fs, temp_bytes, checkpoint_path, checkpoint,
                   quantized_model, counted, out, inv_vars>>

\* print_sparsity(rodnet), line 339.
PrintSparsity ==
    /\ pc = "print_sparsity"
    /\ calls' = Append(calls, "print_sparsity")
    /\ \/ /\ out' = Append(out, Line(stage, "sparsity", "", 0, 0))
          /\ pc' = "print_parameters"
          /\ UNCHANGED err
       \/ /\ Raise("RuntimeError", <<"print_sparsity">>)
          /\ UNCHANGED out
    /\ UNCHANGED <<stage, args, config_dict, fs, temp_bytes, checkpoint_path,
                   checkpoint, rodnet, quantized_model, counted, inv_vars>>

\* Lines 345-347: the cast to half precision.
Half ==
    /\ pc = "half"
    /\ IF ~HalfRequested(args)
       THEN /\ pc' = "quantization"
            /\ UNCHANGED <<stage, rodnet, out, err, calls>>
       ELSE /\ out' = Append(out, Line("half", "banner", "...Performing Quantization...",
                                       0, 0))
            /\ calls' = Append(calls, "half")
            /\ \/ /\ rodnet' = [rodnet EXCEPT !.dtype = "float16"]
                  /\ stage' = "half"
                  /\ pc' = "size_save"
                  /\ UNCHANGED err
               \/ /\ Raise("RuntimeError", <<"half">>)
                  /\ UNCHANGED <<stage, rodnet>>
    /\ UNCHANGED <<args, config_dict, fs, temp_bytes, checkpoint_path, checkpoint,
                   quantized_model, counted, inv_vars>>

\* Lines 351-358: the quantization routine the flag selects.
Quantization ==
    /\ pc = "quantization"
    /\ IF ~QuantizationRequested(args)
       THEN /\ pc' = "done"
            /\ UNCHANGED <<stage, quantized_model, out, err, calls>>
       ELSE LET kind == Lower(args.quantization_type)
                routine == IF kind = "static" THEN "static_quantization"
                           ELSE "dynamic_quantization"
            IN  /\ out' = Append(out, Line("quantization", "banner",
                                           "...Performing Quantization...", 0, 0))
                /\ IF kind \notin {"static", "dynamic"}
                   THEN /\ Raise("ValueError",
                                 <<"Unrecognized quantization type: ",
                                   Str(args.quantization_type)>>)
                        /\ UNCHANGED <<stage, quantized_model, calls>>
                   ELSE /\ calls' = Append(calls, routine)
                        /\ \/ /\ quantized_model' =
                                    [rodnet EXCEPT !.dtype = "qint8", !.quantized = kind]
                              /\ stage' = "quantization"
                              /\ pc' = "print_parameter_type"
                              /\ UNCHANGED err
                           \/ /\ Raise("RuntimeError", <<routine>>)
                              /\ UNCHANGED <<stage, quantized_model>>
    /\ UNCHANGED <<args, config_dict, fs, temp_bytes, checkpoint_path, checkpoint,
                   rodnet, counted, inv_vars>>

\* print(quantized_model), line 362, and the end of main.
PrintModel ==
    /\ pc = "print_model"
    /\ out' = Append(out, Line(stage, "model", "", 0, 0))
    /\ pc' = "done"
    /\ UNCHANGED <<stage, args, config_dict, fs, temp_bytes, checkpoint_path,
                   checkpoint, rodnet, quantized_model, counted, err, calls, inv_vars>>

Next ==
    \/ ParseArgs
    \/ LoadConfigs
    \/ LoadDataset
    \/ CheckPath
    \/ LoadModel
    \/ BuildModel
    \/ LoadStateDict
    \/ EvalAndReturn
    \/ PrintParameters
    \/ PrintTotal
    \/ SizeSave
    \/ SizeGetsize
    \/ SizeRemove
    \/ PrintParameterType
    \/ PruningBanner
    \/ Pruning
    \/ PrintSparsity
    \/ Half
    \/ Quantization
    \/ PrintModel

Spec == Init /\ [][Next]_vars

\* -------------------------------------- concurrent size reporters (line 55-57)
\* Several invocations of print_size_of_model in one working directory, each
\* on its own model; their three statements interleave on the one temp.p.
\* The only failures here are those the interleaving itself produces.

\* The models the concurrent invocations measure: one checkpoint, three dtypes.
MeasuredModels ==
    {[NewModel("RODNetCDC", 2, Dataset.n_class, <<>>, TRUE)
        EXCEPT !.params = StateDict(1, 1), !.dtype = d, !.training = FALSE] :
        d \in {"float32", "float16", "qint8"}}

Running == {i \in Invocations : inv_pc[i] \in {"save", "getsize", "remove"}}

InitConcurrent ==
    /\ MainIdle
    /\ InvocationsIdle
    /\ fs = {CheckpointFile}
    /\ temp_bytes = 0

\* An invocation is called with a model.
InvCall ==
    \E i \in Invocations, m \in MeasuredModels :
        /\ inv_pc[i] = "idle"
        /\ inv_pc' = [inv_pc EXCEPT ![i] = "save"]
        /\ inv_model' = [inv_model EXCEPT ![i] = m]
        /\ inv_alone' = [j \in Invocations |->
                            IF j = i THEN Running = {}
                            ELSE IF j \in Running THEN FALSE ELSE inv_alone[j]]
        /\ UNCHANGED <<main_vars, fs, temp_bytes, inv_result>>

\* Line 55: torch.save(rodnet.state_dict(), "temp.p").
InvSave ==
    \E i \in Invocations :
        /\ inv_pc[i] = "save"
        /\ fs' = fs \cup {TempFile}
        /\ temp_bytes' = SerializedBytes(inv_model[i])
        /\ inv_pc' = [inv_pc EXCEPT ![i] = "getsize"]
        /\ UNCHANGED <<main_vars, inv_model, inv_result, inv_alone>>

\* Line 56: print('Size (KB):', os.path.getsize("temp.p")/1e3).
InvGetsize ==
    \E i \in Invocations :
        /\ inv_pc[i] = "getsize"
        /\ IF TempFile \notin fs
           THEN /\ inv_result' = [inv_result EXCEPT ![i] =
                                    [status |-> "FileNotFoundError", whole |-> 0,
                                     frac |-> 0]]
                /\ inv_pc' = [inv_pc EXCEPT ![i] = "raised"]
           ELSE /\ inv_result' = [inv_result EXCEPT ![i] =
                                    [status |-> "printed",
                                     whole |-> KiloBytes(temp_bytes).whole,
                                     frac |-> KiloBytes(temp_bytes).frac]]
                /\ inv_pc' = [inv_pc EXCEPT ![i] = "remove"]
        /\ UNCHANGED <<main_vars, fs, temp_bytes, inv_model, inv_alone>>

\* Line 57: os.remove('temp.p').
InvRemove ==
    \E i \in Invocations :
        /\ inv_pc[i] = "remove"
        /\ IF TempFile \notin fs
           THEN /\ inv_result' = [inv_result EXCEPT ![i].status = "FileNotFoundError"]
                /\ inv_pc' = [inv_pc EXCEPT ![i] = "raised"]
                /\ UNCHANGED <<fs, temp_bytes>>
           ELSE /\ fs' = fs \ {TempFile}
                /\ temp_bytes' = 0
                /\ inv_pc' = [inv_pc EXCEPT ![i] = "returned"]
                /\ UNCHANGED inv_result
        /\ UNCHANGED <<main_vars, inv_model, inv_alone>>

NextConcurrent ==
    \/ InvCall
    \/ InvSave
    \/ InvGetsize
    \/ InvRemove

SpecConcurrent == InitConcurrent /\ [][NextConcurrent]_vars

\* ------------------------------------------------------------- properties

\* The positions of main after build_model returned.
AfterBuild ==
    {"print_parameters", "print_total", "size_save", "size_getsize", "size_remove",
     "print_parameter_type", "pruning_banner", "pruning", "print_sparsity", "half",
     "quantization", "print_model", "done"}

Constructors ==
    {"RODNetCDC", "RODNetHG", "RODNetHGwI", "RODNetCDCDCN", "RODNetHGDCN",
     "RODNetHGwIDCN"}
PruningRoutines == {"global_unstructured_pruning", "multi_parameter_unstructured_pruning"}
QuantizationRoutines == {"static_quantization", "dynamic_quantization"}

Called(names) == {i \in DOMAIN calls : calls[i] \in names}

\* The architecture the documentation gives for each supported tag.
C1_Expected ==
    [t \in SupportedTypes |->
        CASE t = "CDC" -> "RODNetCDC"
          [] t = "HG" -> "RODNetHG"
          [] t = "HGwI" -> "RODNetHGwI"
          [] t = "CDCv2" -> "RODNetCDCDCN"
          [] t = "HGv2" -> "RODNetHGDCN"
          [] t = "HGwIv2" -> "RODNetHGwIDCN"]

\* C1: the dispatch step of build_model calls, for each of the six supported
\* tags, the constructor of exactly the corresponding architecture (or stops
\* on a missing configuration key before constructing anything), and for any
\* other tag raises NotImplementedError, constructing no model and loading
\* no weights.
C1_Dispatch ==
    [][pc = "build_model" =>
        LET type == config_dict.model_cfg.type
        IN  IF type \in SupportedTypes
            THEN \/ /\ calls' = Append(calls, C1_Expected[type])
                    /\ \/ rodnet'.arch = C1_Expected[type] /\ pc' = "load_state_dict"
                       \/ rodnet' = NoModel /\ pc' = "aborted"
                 \/ /\ err'.type = "KeyError"
                    /\ calls' = calls
                    /\ rodnet' = NoModel
            ELSE /\ pc' = "aborted"
                 /\ err' = [type |-> "NotImplementedError",
                            msg |-> <<"The following model type is not supported: ",
                                      type>>]
                 /\ rodnet' = NoModel
                 /\ calls' = calls
                 /\ Called(Constructors \cup {"load_state_dict"})' = {}]_vars

C1_Witness ==
    /\ config_dict.model_cfg.type = "HGwIv2"
    /\ rodnet.arch = "RODNetHGwIDCN"
    /\ pc = "load_state_dict"

\* C2: once print_size_of_model has returned or raised, temp.p is not on disk.
C2_TempFileNeverLeft ==
    pc \notin {"size_getsize", "size_remove"} => TempFile \notin fs

\* C3: check_path returns its argument unchanged when the path exists, and
\* otherwise (a missing path, or None) raises ValueError with the path value
\* in its message; when it raises, main loads no checkpoint and builds no model.
C3_CheckPath ==
    /\ [][pc = "check_path" =>
            IF args.checkpoint # None /\ args.checkpoint \in fs
            THEN /\ checkpoint_path' = args.checkpoint
                 /\ pc' = "load_model"
                 /\ err' = NoError
            ELSE /\ pc' = "aborted"
                 /\ err' = [type |-> "ValueError",
                            msg |-> <<"The following path does not exist: ",
                                      IF args.checkpoint = None THEN "None"
                                      ELSE args.checkpoint>>]]_vars
    /\ [](err.type = "ValueError" =>
            /\ calls = <<>>
            /\ checkpoint = EmptyDict
            /\ rodnet = NoModel)
    /\ []("torch.load" \in Range(calls) =>
            args.checkpoint # None /\ args.checkpoint \in fs)

C3_Witness ==
    /\ args.checkpoint = "checkpoints/missing.pkl"
    /\ pc = "aborted"
    /\ err = [type |-> "ValueError",
              msg |-> <<"The following path does not exist: ",
                        "checkpoints/missing.pkl">>]
    /\ calls = <<>>

\* C4: at the moment build_model returns to main the model is in inference
\* mode, and the switch to it came after the one load of the weights.
C4_EvalOnReturn ==
    [][(pc \in {"build_model", "load_state_dict", "eval"} /\ pc' \in AfterBuild) =>
        /\ rodnet'.arch \in Constructors
        /\ ~rodnet'.training
        /\ \E i, j \in DOMAIN calls' :
              /\ i < j
              /\ calls'[i] = "load_state_dict"
              /\ calls'[j] = "eval"
              /\ j = Len(calls')]_vars

C4_Witness ==
    /\ pc = "print_parameters"
    /\ out = <<>>
    /\ rodnet.arch = "RODNetHGDCN"
    /\ IsWrapper(checkpoint)
    /\ ~rodnet.training

\* Element count of a tensor, from its last dimension to its first.
RECURSIVE C5_Elements(_)
C5_Elements(shape) ==
    IF Len(shape) = 0 THEN 1
    ELSE shape[Len(shape)] * C5_Elements(SubSeq(shape, 1, Len(shape) - 1))

\* Total element count of the tensors of params whose names are listed in seq.
RECURSIVE C5_Total(_, _)
C5_Total(params, seq) ==
    IF seq = <<>> THEN 0
    ELSE (IF Head(seq) \in DOMAIN params THEN C5_Elements(params[Head(seq)]) ELSE 0)
            + C5_Total(params, Tail(seq))

\* C5: print_parameters returns (encoder total, decoder total), each the sum
\* of the element counts of that sub-module's tensors; the total main prints
\* next is their sum (100 and 50 give 150); the call leaves the model as it was.
C5_ParameterCount ==
    /\ [](pc = "print_total" =>
            /\ counted.encoder_parameters = C5_Total(rodnet.params, EncoderNames)
            /\ counted.decoder_parameters = C5_Total(rodnet.params, DecoderNames)
            /\ out[Len(out)] = Line(stage, "parameters", "",
                                    C5_Total(rodnet.params, EncoderNames),
                                    C5_Total(rodnet.params, DecoderNames)))
    /\ [](\A i \in DOMAIN out : out[i].kind = "total" =>
            /\ i > 1
            /\ out[i - 1].kind = "parameters"
            /\ out[i].a = C5_Total(rodnet.params, EncoderNames)
                            + C5_Total(rodnet.params, DecoderNames))
    /\ []((pc = "print_total" /\ rodnet.params = StateDict(1, 1)) =>
            counted = [encoder_parameters |-> 100, decoder_parameters |-> 50])
    /\ [][pc = "print_parameters" => rodnet' = rodnet]_vars

C5_Witness ==
    /\ Len(out) = 2
    /\ out[1] = Line("base", "parameters", "", 100, 50)
    /\ out[2] = Line("base", "total", "", 150, 0)
    /\ DOMAIN rodnet.params = {EncoderNames[1], DecoderNames[1], OtherName}

\* Place of an external routine in the order Pruned, Half-precision, Quantized.
C6_Rank(call) ==
    CASE call \in PruningRoutines -> 1
      [] call = "half" -> 2
      [] call \in QuantizationRoutines -> 3
      [] OTHER -> 0

\* C6: the transformations of a run happen in the order pruning, half cast,
\* quantization, each at most once and only when its flag is set; without any
\* flag the model stays as it was loaded.
C6_StageOrder ==
    /\ \A i, j \in DOMAIN calls :
          (i < j /\ C6_Rank(calls[i]) > 0 /\ C6_Rank(calls[j]) > 0)
              => C6_Rank(calls[i]) < C6_Rank(calls[j])
    /\ Called(PruningRoutines) # {} => args.pruning_type \in {"global", "local"}
    /\ Called({"half"}) # {} => args.half
    /\ Called(QuantizationRoutines) # {} => args.quantization_type \in {"static", "dynamic"}
    /\ rodnet.pruned # "" => Called(PruningRoutines) # {}
    /\ rodnet.dtype = "float16" => Called({"half"}) # {}
    /\ quantized_model # NoModel => Called(QuantizationRoutines) # {}
    /\ (args.pruning_type = None /\ ~args.half /\ args.quantization_type = None) =>
          /\ rodnet.pruned = ""
          /\ rodnet.dtype \in {"", "float32"}
          /\ quantized_model = NoModel
          /\ \A i \in DOMAIN calls : C6_Rank(calls[i]) = 0

C6_Witness ==
    /\ pc = "done"
    /\ rodnet.pruned = "local"
    /\ rodnet.dtype = "float16"
    /\ quantized_model.quantized = "static"
    /\ Called(PruningRoutines \cup {"half"} \cup QuantizationRoutines) # {}

\* C7: an error ends the run where it was raised; the diagnostics of a
\* transformation are printed only after that transformation completed; and a
\* finished run shows pruning-stage output only if pruning was requested and
\* performed.
C7_SuccessPathOutput ==
    /\ pc = "aborted" <=> err # NoError
    /\ \A i \in DOMAIN out :
          out[i].kind # "banner" =>
              /\ out[i].stage = "pruning" => rodnet.pruned # ""
              /\ out[i].stage = "half" => rodnet.dtype = "float16"
              /\ out[i].stage = "quantization" => quantized_model # NoModel
    /\ (pc = "done" /\ \E i \in DOMAIN out : out[i].stage = "pruning") =>
          /\ args.pruning_type # None
          /\ rodnet.pruned # ""

\* C8: a pruning or quantization type outside global/local and static/dynamic
\* ends the run at the command line with an error that names the value, before
\* any pruning or quantization routine is invoked; only those four values are
\* ever accepted.
C8_UnsupportedTypeRejected ==
    /\ err.type = "SystemExit" =>
          /\ pc = "aborted"
          /\ Len(err.msg) = 2
          /\ err.msg[2] \in (PruningArgs \cup QuantizationArgs) \ {None}
          /\ err.msg[2] \notin {"global", "local", "static", "dynamic"}
          /\ calls = <<>>
          /\ out = <<>>
    /\ (pc # "parse_args" /\ err.type # "SystemExit") =>
          /\ args.pruning_type \in {None, "global", "local"}
          /\ args.quantization_type \in {None, "static", "dynamic"}
    /\ Called(PruningRoutines) # {} => args.pruning_type \in {"global", "local"}
    /\ Called(QuantizationRoutines) # {} =>
          args.quantization_type \in {"static", "dynamic"}

C8_Witness ==
    /\ pc = "aborted"
    /\ err = [type |-> "SystemExit",
              msg |-> <<"argument --pruning_type: invalid choice: ", "structured">>]
    /\ calls = <<>>

\* The bytes an invocation printed, back from kilobytes.
C9_Printed(i) == inv_result[i].whole * 1000 + inv_result[i].frac

\* C9: an invocation of print_size_of_model that no other invocation overlaps
\* prints the size of its own model and returns; overlapping invocations can
\* print another model's size or fail on the file another one removed.
C9_SerialMeasurement ==
    \A i \in Invocations :
        inv_alone[i] =>
            /\ inv_pc[i] # "raised"
            /\ inv_pc[i] \in {"remove", "returned"} =>
                  /\ inv_result[i].status = "printed"
                  /\ C9_Printed(i) = SerializedBytes(inv_model[i])

C9_Witness ==
    \E i, j \in Invocations :
        /\ i # j
        /\ inv_pc[i] # "idle"
        /\ inv_pc[j] # "idle"
        /\ inv_result[i].status = "printed"
        /\ C9_Printed(i) = SerializedBytes(inv_model[j])
        /\ C9_Printed(i) # SerializedBytes(inv_model[i])
        /\ inv_result[j].status = "FileNotFoundError"

\* C10: build_model loads the wrapper's 'model_state_dict' entry when the
\* checkpoint holds 'optimizer_state_dict' and the checkpoint itself otherwise,
\* in exactly one load, after the constructor and before the return.
C10_CheckpointShapes ==
    /\ Cardinality(Called({"load_state_dict"})) <= 1
    /\ pc \in AfterBuild \cup {"eval"} =>
          /\ rodnet.params =
                IF "optimizer_state_dict" \in DOMAIN checkpoint
                THEN checkpoint.model_state_dict
                ELSE checkpoint
          /\ Cardinality(Called({"load_state_dict"})) = 1
          /\ \E i, j \in DOMAIN calls :
                /\ i < j
                /\ calls[i] = rodnet.arch
                /\ calls[j] = "load_state_dict"

C10_Witness ==
    /\ pc = "print_parameters"
    /\ out = <<>>
    /\ "optimizer_state_dict" \in DOMAIN checkpoint
    /\ rodnet.params = StateDict(2, 1)
    /\ checkpoint.model_state_dict = StateDict(2, 1)

====
